---- MODULE Spec2Model ----
(***************************************************************************)
(* Model of src/netcat_transfer.py (NetcatTransferApp).                    *)
(*                                                                         *)
(* Two parts, as in the program:                                           *)
(*   - discovery: start_discovery_listener, broadcast_discovery,           *)
(*     refresh_pin, over UDP port 12346;                                   *)
(*   - transfer: send_file / start_receiving, each a thread that runs one  *)
(*     `nc` shell pipeline under subprocess.run(timeout=300).              *)
(*                                                                         *)
(* Strings are sequences of tokens ("DISCOVERY", ":", ".", an octet, a     *)
(* PIN), so that str.split / str.join / startswith are computed as Python  *)
(* computes them.  The operating system and the network are assumed to     *)
(* work: the only failures modelled are those that follow from modelled    *)
(* state (port in use, connection refused, peer gone, timeout).  The lines *)
(* send_thread and receive_thread log are kept as soutcome and routcome;   *)
(* `log` holds the lines of the discovery part.                            *)
(***************************************************************************)
EXTENDS Integers, Sequences, FiniteSets, TLC

\* ---------------------------------------------------------------- bounds
MaxDatagrams == 2   \* datagrams put on the network in one behaviour
MaxRefresh == 1     \* refresh_pin calls in one behaviour

MaxLen == 2         \* bytes in a file that is sent
MaxStamp == 2       \* distinct seconds the wall clock shows in one behaviour
\* ------------------------------------------------------------- constants
\* get_local_ip: the dotted address of the host the app runs on
local_ip == <<"192", ".", "168", ".", "1", ".", "5">>

\* another host of the same /24 running the program
remote_ip == <<"192", ".", "168", ".", "1", ".", "7">>

\* generate_pin draws six random digits; two values stand for them
Pins == {<<"111111">>, <<"222222">>}

DiscoveryPort == 12346

\* subprocess.run(..., timeout=300): five minutes, counted in minutes
Timeout == 5

\* the receives that are started (two presses of "Start Listening")
Recvs == {"r1", "r2"}

Bytes == {"a", "b"}

\* a byte of a hole left by a write past the end of a file
Nul == "0"

Files == UNION {[1..n -> Bytes] : n \in 0..MaxLen}

Stamps == 1..MaxStamp

NoConn == [src |-> "none", pin |-> <<>>, declared |-> 0, wire |-> <<>>,
           eof |-> FALSE, sentn |-> 0, got |-> 0]

\* ------------------------------------------------------- string helpers
RECURSIVE SplitAcc(_, _, _, _)
SplitAcc(s, sep, cur, acc) ==
  IF s = <<>> THEN Append(acc, cur)
  ELSE IF Head(s) = sep
       THEN SplitAcc(Tail(s), sep, <<>>, Append(acc, cur))
       ELSE SplitAcc(Tail(s), sep, Append(cur, Head(s)), acc)

\* str.split(sep)
Split(s, sep) == SplitAcc(s, sep, <<>>, <<>>)

RECURSIVE Join(_, _)
\* sep.join(parts)
Join(parts, sep) ==
  IF parts = <<>> THEN <<>>
  ELSE IF Len(parts) = 1 THEN parts[1]
       ELSE parts[1] \o <<sep>> \o Join(Tail(parts), sep)

\* str.startswith(prefix)
StartsWith(s, prefix) ==
  Len(s) >= Len(prefix) /\ SubSeq(s, 1, Len(prefix)) = prefix

\* bytes.decode('utf-8') succeeds unless the datagram holds an invalid byte
Decodable(data) == \A i \in 1..Len(data) : data[i] # "xFF"

\* f"DISCOVERY:{self.local_ip}:{self.pin_code}"
DiscoveryMessage(ip, pin) == <<"DISCOVERY", ":">> \o ip \o <<":">> \o pin

\* the host part zeroed instead of set to 255
BroadcastIpZeroed(ip) ==
  LET ip_parts == Split(ip, ".")
  IN  Join(SubSeq(ip_parts, 1, Len(ip_parts) - 1), ".") \o <<".", "0">>

\* '.'.join(ip_parts[:-1]) + '.255'
BroadcastIp(ip) ==
  LET ip_parts == Split(ip, ".")
  IN  Join(SubSeq(ip_parts, 1, Len(ip_parts) - 1), ".") \o <<".", "255">>

\* the directed-broadcast address of the /24 the host sits in (the network's
\* view: a datagram sent there reaches every socket of the /24 bound to the
\* port, the sender's own included)
SubnetBroadcast == <<"192", ".", "168", ".", "1", ".", "255">>

\* datagrams that reach the host from other senders: the program running on
\* remote_ip, and senders that do not speak the format
ForeignData ==
  { DiscoveryMessage(remote_ip, pin) : pin \in Pins } \cup
  { <<"HELLO", ":">> \o remote_ip \o <<":", "111111">>,   \* wrong prefix
    <<"DISCOVERY", ":", "111111">>,                       \* two fields
    <<"xFF">> }                                           \* not UTF-8

EmptyMap == [x \in {} |-> <<>>]

\* a dict that keeps the first value stored under a key
PutKeepFirst(d, k, v) ==
  [x \in (DOMAIN d) \cup {k} |-> IF x \in DOMAIN d THEN d[x] ELSE v]

\* dict[key] = value
Put(d, k, v) == [x \in (DOMAIN d) \cup {k} |-> IF x = k THEN v ELSE d[x]]

\* ----------------------------------------------------------------- state
VARIABLES
  pin_code,           \* self.pin_code
  refreshes,          \* refresh_pin calls so far
  discovery_running,  \* self.discovery_running
  discovered_peers,   \* self.discovered_peers: map ip -> pin
  lpc,                \* position of the listener thread
  sockq,              \* datagrams buffered in the listener's UDP socket
  sent,               \* Seq([src, dst, port, data]): datagrams put on the net
  processed,          \* Seq(data): datagrams recvfrom has returned
  log                 \* Seq(kind): lines given to self.log

dvars == <<pin_code, refreshes, discovery_running, discovered_peers, lpc,
           sockq, sent, processed, log>>


VARIABLES
  sthread,        \* send_thread: "idle" | "waiting" (in subprocess.run) | "done"
  soutcome,       \* what send_thread logged: "pending" | "success" | "error" | "timeout"
  snc,            \* the sender's nc: "none" | "connecting" | "sending" | "exited"
  sfile,          \* bytes of the file at file_path
  receiver_pin,   \* the PIN typed into the sender's form
  ssent,          \* bytes nc has written to the connection
  sto,            \* the receive whose nc the sender is connected to
  selapsed,       \* minutes send_thread has spent in subprocess.run
  rthread,        \* receive_thread of each receive: "idle" | "started" | "waiting" | "done"
  routcome,       \* what receive_thread logged
  rnc,            \* the receiver's nc: "none" | "listening" | "connected" | "exited"
  expected_pin,   \* the PIN typed into the receiver's form
  save_path,      \* the timestamp that names the destination file (0: none yet)
  relapsed,       \* minutes receive_thread has spent in subprocess.run
  cancelled,      \* the caller has signalled cancellation of the receive
  conn,           \* the TCP connection accepted by each receiver's nc
  files,          \* the save folder: timestamp -> [exists, data]
  port,           \* holder of TCP port 12345: "free" or a receive
  stamp           \* the second datetime.now() shows (strftime "%Y%m%d_%H%M%S")

tvars == <<sthread, soutcome, snc, sfile, receiver_pin, ssent, sto, selapsed,
           rthread, routcome, rnc, expected_pin, save_path, relapsed,
           cancelled, conn, files, port, stamp>>

vars == <<dvars, tvars>>

Log(kind) == log' = Append(log, kind)

\* __init__, lines 67-78: the listener thread is started, nothing is bound yet
DInit ==
  /\ pin_code \in Pins
  /\ refreshes = 0
  /\ discovery_running = TRUE
  /\ discovered_peers = EmptyMap
  /\ lpc = "bind"
  /\ sockq = <<>>
  /\ sent = <<>>
  /\ processed = <<>>
  /\ log = <<>>

\* a refresh_pin that also forgets the peers discovered so far
RefreshPinForgetsPeers ==
  /\ refreshes < MaxRefresh
  /\ \E p \in Pins : pin_code' = p
  /\ refreshes' = refreshes + 1
  /\ Log("new_pin")
  /\ discovered_peers' = EmptyMap
  /\ UNCHANGED <<discovery_running, lpc, sockq, sent, processed>>
  /\ UNCHANGED tvars

\* refresh_pin
RefreshPin ==
  /\ refreshes < MaxRefresh
  /\ \E p \in Pins : pin_code' = p
  /\ refreshes' = refreshes + 1
  /\ Log("new_pin")
  /\ UNCHANGED <<discovery_running, discovered_peers, lpc, sockq, sent,
                 processed>>
  /\ UNCHANGED tvars

\* a datagram addressed to dst is buffered by the listener's socket once it
\* is bound, when dst is the host or its subnet's broadcast address
Deliver(q, dst, data) ==
  IF lpc \in {"loop", "recv"} /\ dst \in {local_ip, SubnetBroadcast}
  THEN Append(q, data)
  ELSE q

\* broadcast_discovery
BroadcastDiscovery ==
  /\ Len(sent) < MaxDatagrams
  /\ LET message == DiscoveryMessage(local_ip, pin_code)
         broadcast_ip == BroadcastIp(local_ip)
     IN  /\ sent' = Append(sent, [src |-> "self", dst |-> broadcast_ip,
                                  port |-> DiscoveryPort, data |-> message])
         /\ sockq' = Deliver(sockq, broadcast_ip, message)
  /\ Log("broadcast_sent")
  /\ UNCHANGED <<pin_code, refreshes, discovery_running, discovered_peers,
                 lpc, processed>>
  /\ UNCHANGED tvars

\* any other UDP sender of the subnet: port 12346 is open to all
ForeignDatagram ==
  /\ Len(sent) < MaxDatagrams
  /\ \E data \in ForeignData :
       /\ sent' = Append(sent, [src |-> "foreign", dst |-> SubnetBroadcast,
                                port |-> DiscoveryPort, data |-> data])
       /\ sockq' = Deliver(sockq, SubnetBroadcast, data)
  /\ UNCHANGED <<pin_code, refreshes, discovery_running, discovered_peers,
                 lpc, processed, log>>
  /\ UNCHANGED tvars

\* start_discovery_listener, lines 693-695: socket, SO_REUSEADDR, bind
ListenerBind ==
  /\ lpc = "bind"
  /\ lpc' = "loop"
  /\ UNCHANGED <<pin_code, refreshes, discovery_running, discovered_peers,
                 sockq, sent, processed, log>>
  /\ UNCHANGED tvars

\* line 697: while self.discovery_running
ListenerCheck ==
  /\ lpc = "loop"
  /\ lpc' = IF discovery_running THEN "recv" ELSE "exited"
  /\ UNCHANGED <<pin_code, refreshes, discovery_running, discovered_peers,
                 sockq, sent, processed, log>>
  /\ UNCHANGED tvars

\* the well-formed test of lines 703-705, on a decoded message
Accepted(message) ==
  /\ StartsWith(message, <<"DISCOVERY", ":">>)
  /\ Len(Split(message, ":")) >= 3

\* a listen loop whose try block encloses the while statement: the exception
\* raised by a datagram that cannot be decoded leaves the loop
ListenerRecvUncaught ==
  /\ lpc = "recv"
  /\ sockq # <<>>
  /\ LET data == Head(sockq)
     IN  /\ sockq' = Tail(sockq)
         /\ processed' = Append(processed, data)
         /\ IF ~Decodable(data)
            THEN /\ Log("discovery_error")
                 /\ lpc' = "exited"
                 /\ UNCHANGED discovered_peers
            ELSE /\ lpc' = "loop"
                 /\ IF Accepted(data)
                    THEN LET parts == Split(data, ":")
                             peer_ip == parts[2]
                             peer_pin == parts[3]
                         IN  /\ discovered_peers' =
                                  Put(discovered_peers, peer_ip, peer_pin)
                             /\ Log("discovered_peer")
                    ELSE UNCHANGED <<discovered_peers, log>>
  /\ UNCHANGED <<pin_code, refreshes, discovery_running, sent>>
  /\ UNCHANGED tvars

\* lines 699-714: recvfrom returns one datagram (no timeout is ever set on the
\* socket, so it returns only when a datagram is there) and it is handled
ListenerRecv ==
  /\ lpc = "recv"
  /\ sockq # <<>>
  /\ LET data == Head(sockq)
     IN  /\ sockq' = Tail(sockq)
         /\ processed' = Append(processed, data)
         /\ IF ~Decodable(data)
            THEN \* UnicodeDecodeError, caught at line 712
                 /\ IF discovery_running
                    THEN Log("discovery_error")
                    ELSE UNCHANGED log
                 /\ UNCHANGED discovered_peers
            ELSE IF Accepted(data)
                 THEN LET parts == Split(data, ":")
                          peer_ip == parts[2]
                          peer_pin == parts[3]
                      IN  /\ discovered_peers' =
                               Put(discovered_peers, peer_ip, peer_pin)
                          /\ Log("discovered_peer")
                 ELSE UNCHANGED <<discovered_peers, log>>
  /\ lpc' = "loop"
  /\ UNCHANGED <<pin_code, refreshes, discovery_running, sent>>
  /\ UNCHANGED tvars

\* the owner of the app clears self.discovery_running (the flag the loop
\* tests at lines 697 and 713)
StopDiscovery ==
  /\ discovery_running
  /\ discovery_running' = FALSE
  /\ UNCHANGED <<pin_code, refreshes, discovered_peers, lpc, sockq, sent,
                 processed, log>>
  /\ UNCHANGED tvars

DNext ==
  \/ RefreshPin
  \/ BroadcastDiscovery
  \/ ForeignDatagram
  \/ ListenerBind
  \/ ListenerCheck
  \/ ListenerRecv
  \/ StopDiscovery


\* ------------------------------------------------------------- transfer
\* nothing has been sent or received yet; the save folder holds no file
TInit ==
  /\ sthread = "idle"
  /\ soutcome = "pending"
  /\ snc = "none"
  /\ sfile = <<>>
  /\ receiver_pin = <<>>
  /\ ssent = 0
  /\ sto = "none"
  /\ selapsed = 0
  /\ rthread = [r \in Recvs |-> "idle"]
  /\ routcome = [r \in Recvs |-> "pending"]
  /\ rnc = [r \in Recvs |-> "none"]
  /\ expected_pin = [r \in Recvs |-> <<>>]
  /\ save_path = [r \in Recvs |-> 0]
  /\ relapsed = [r \in Recvs |-> 0]
  /\ cancelled = [r \in Recvs |-> FALSE]
  /\ conn = [r \in Recvs |-> NoConn]
  /\ files = [t \in Stamps |-> [exists |-> FALSE, data |-> <<>>]]
  /\ port = "free"
  /\ stamp = 1

\* the entries a form field can hold: a PIN or nothing
PinEntries == Pins \cup {<<>>}

\* a write that ignores the offset and always lands on the first byte
WriteAtStart(data, off, b) ==
  IF data = <<>> THEN <<b>> ELSE [data EXCEPT ![1] = b]

\* write(2) of one byte at offset off of a file opened without O_APPEND
WriteAt(data, off, b) ==
  IF off < Len(data)
  THEN [data EXCEPT ![off + 1] = b]
  ELSE data \o [i \in 1..(off - Len(data)) |-> Nul] \o <<b>>

\* send_file, lines 568-624: the form is validated, send_thread is started and
\* enters subprocess.run, whose shell opens the file and starts nc
SendFile ==
  /\ sthread = "idle"
  /\ \E f \in Files, pin \in PinEntries :
       /\ pin # <<>>
       /\ sfile' = f
       /\ receiver_pin' = pin
  /\ sthread' = "waiting"
  /\ snc' = "connecting"
  /\ ssent' = 0
  /\ selapsed' = 0
  /\ UNCHANGED <<soutcome, sto, rthread, routcome, rnc, expected_pin,
                 save_path, relapsed, cancelled, conn, files, port, stamp>>
  /\ UNCHANGED dvars

\* lines 610-616: subprocess.run returned with nc's exit status
SendResult(code) ==
  IF sthread = "waiting"
  THEN /\ sthread' = "done"
       /\ soutcome' = IF code = 0 THEN "success" ELSE "error"
  ELSE UNCHANGED <<sthread, soutcome>>

\* nc connects to port 12345 of the receiver: accepted by a listening nc,
\* refused otherwise (nc then exits with a non-zero status)
SendConnect ==
  /\ snc = "connecting"
  /\ IF port # "free" /\ rnc[port] = "listening"
     THEN /\ conn' = [conn EXCEPT ![port] =
                        [src |-> "app", pin |-> receiver_pin,
                         declared |-> Len(sfile), wire |-> <<>>,
                         eof |-> FALSE, sentn |-> 0, got |-> 0]]
          /\ rnc' = [rnc EXCEPT ![port] = "connected"]
          /\ sto' = port
          /\ snc' = "sending"
          /\ UNCHANGED <<sthread, soutcome>>
     ELSE /\ snc' = "exited"
          /\ SendResult(1)
          /\ UNCHANGED <<conn, rnc, sto>>
  /\ UNCHANGED <<sfile, receiver_pin, ssent, selapsed, rthread, routcome,
                 expected_pin, save_path, relapsed, cancelled, files, port,
                 stamp>>
  /\ UNCHANGED dvars

\* nc copies the next byte of the file to the connection
SendChunk ==
  /\ snc = "sending"
  /\ ssent < Len(sfile)
  /\ rnc[sto] = "connected"
  /\ conn' = [conn EXCEPT ![sto].wire = Append(@, sfile[ssent + 1]),
                          ![sto].sentn = @ + 1]
  /\ ssent' = ssent + 1
  /\ UNCHANGED <<sthread, soutcome, snc, sfile, receiver_pin, sto, selapsed,
                 rthread, routcome, rnc, expected_pin, save_path, relapsed,
                 cancelled, files, port, stamp>>
  /\ UNCHANGED dvars

\* end of file on stdin: nc closes the connection and exits with status 0
SendEOF ==
  /\ snc = "sending"
  /\ ssent = Len(sfile)
  /\ conn' = [conn EXCEPT ![sto].eof = TRUE]
  /\ snc' = "exited"
  /\ SendResult(0)
  /\ UNCHANGED <<sfile, receiver_pin, ssent, sto, selapsed, rthread,
                 routcome, rnc, expected_pin, save_path, relapsed, cancelled,
                 files, port, stamp>>
  /\ UNCHANGED dvars

\* the receiving nc is gone before the file is through: the write fails and
\* nc exits with a non-zero status
SendBroken ==
  /\ snc = "sending"
  /\ ssent < Len(sfile)
  /\ rnc[sto] # "connected"
  /\ conn' = [conn EXCEPT ![sto].eof = TRUE]
  /\ snc' = "exited"
  /\ SendResult(1)
  /\ UNCHANGED <<sfile, receiver_pin, ssent, sto, selapsed, rthread,
                 routcome, rnc, expected_pin, save_path, relapsed, cancelled,
                 files, port, stamp>>
  /\ UNCHANGED dvars

\* lines 617-619: subprocess.run raises TimeoutExpired after killing the shell
\* it started.  nc dies with it when the shell had exec'ed nc, and lives on
\* when the shell had forked it: both are outcomes of `sh -c`.
SendTimeout ==
  /\ sthread = "waiting"
  /\ selapsed = Timeout
  /\ sthread' = "done"
  /\ soutcome' = "timeout"
  /\ \E killed \in BOOLEAN :
       IF killed /\ snc \in {"connecting", "sending"}
       THEN /\ snc' = "exited"
            /\ conn' = IF snc = "sending"
                       THEN [conn EXCEPT ![sto].eof = TRUE]
                       ELSE conn
       ELSE UNCHANGED <<snc, conn>>
  /\ UNCHANGED <<sfile, receiver_pin, ssent, sto, selapsed, rthread,
                 routcome, rnc, expected_pin, save_path, relapsed, cancelled,
                 files, port, stamp>>
  /\ UNCHANGED dvars

\* start_receiving, lines 626-640 and 687: the form is validated and
\* receive_thread is started
StartReceiving(r) ==
  /\ rthread[r] = "idle"
  /\ \E pin \in PinEntries :
       /\ pin # <<>>
       /\ expected_pin' = [expected_pin EXCEPT ![r] = pin]
  /\ rthread' = [rthread EXCEPT ![r] = "started"]
  /\ UNCHANGED <<sthread, soutcome, snc, sfile, receiver_pin, ssent, sto,
                 selapsed, routcome, rnc, save_path, relapsed, cancelled,
                 conn, files, port, stamp>>
  /\ UNCHANGED dvars

\* lines 673-679: subprocess.run returned with nc's exit status
RecvResult(r, code) ==
  IF rthread[r] = "waiting"
  THEN /\ rthread' = [rthread EXCEPT ![r] = "done"]
       /\ routcome' = [routcome EXCEPT ![r] =
                         IF code = 0 THEN "success" ELSE "error"]
  ELSE UNCHANGED <<rthread, routcome>>

\* receive_thread, lines 643-671: the destination is named after the current
\* second, and subprocess.run starts `nc -l -p 12345 > save_path`: the shell
\* creates or truncates the destination, then nc binds the port, or fails at
\* once when the port is taken
RecvSpawn(r) ==
  /\ rthread[r] = "started"
  /\ save_path' = [save_path EXCEPT ![r] = stamp]
  /\ files' = [files EXCEPT ![stamp] = [exists |-> TRUE, data |-> <<>>]]
  /\ relapsed' = [relapsed EXCEPT ![r] = 0]
  /\ IF port = "free"
     THEN /\ port' = r
          /\ rnc' = [rnc EXCEPT ![r] = "listening"]
          /\ rthread' = [rthread EXCEPT ![r] = "waiting"]
          /\ UNCHANGED routcome
     ELSE /\ rnc' = [rnc EXCEPT ![r] = "exited"]
          /\ rthread' = [rthread EXCEPT ![r] = "done"]
          /\ routcome' = [routcome EXCEPT ![r] = "error"]
          /\ UNCHANGED port
  /\ UNCHANGED <<sthread, soutcome, snc, sfile, receiver_pin, ssent, sto,
                 selapsed, expected_pin, cancelled, conn, stamp>>
  /\ UNCHANGED dvars

\* nc copies the next byte of the connection to its standard output, the
\* destination file
RecvChunk(r) ==
  /\ rnc[r] = "connected"
  /\ conn[r].wire # <<>>
  /\ files' = [files EXCEPT ![save_path[r]].data =
                 WriteAt(@, conn[r].got, Head(conn[r].wire))]
  /\ conn' = [conn EXCEPT ![r].wire = Tail(@), ![r].got = @ + 1]
  /\ UNCHANGED <<sthread, soutcome, snc, sfile, receiver_pin, ssent, sto,
                 selapsed, rthread, routcome, rnc, expected_pin, save_path,
                 relapsed, cancelled, port, stamp>>
  /\ UNCHANGED dvars

\* the peer has closed and every byte is read: nc exits with status 0
RecvEOF(r) ==
  /\ rnc[r] = "connected"
  /\ conn[r].wire = <<>>
  /\ conn[r].eof
  /\ rnc' = [rnc EXCEPT ![r] = "exited"]
  /\ port' = "free"
  /\ RecvResult(r, 0)
  /\ UNCHANGED <<sthread, soutcome, snc, sfile, receiver_pin, ssent, sto,
                 selapsed, expected_pin, save_path, relapsed, cancelled,
                 conn, files, stamp>>
  /\ UNCHANGED dvars

\* lines 680-682: TimeoutExpired, as in SendTimeout
RecvTimeout(r) ==
  /\ rthread[r] = "waiting"
  /\ relapsed[r] = Timeout
  /\ rthread' = [rthread EXCEPT ![r] = "done"]
  /\ routcome' = [routcome EXCEPT ![r] = "timeout"]
  /\ \E killed \in BOOLEAN :
       IF killed /\ rnc[r] \in {"listening", "connected"}
       THEN /\ rnc' = [rnc EXCEPT ![r] = "exited"]
            /\ port' = "free"
       ELSE UNCHANGED <<rnc, port>>
  /\ UNCHANGED <<sthread, soutcome, snc, sfile, receiver_pin, ssent, sto,
                 selapsed, expected_pin, save_path, relapsed, cancelled,
                 conn, files, stamp>>
  /\ UNCHANGED dvars

\* the caller signals that the receive is to be cancelled; receive_thread has
\* no statement that reads such a signal
RequestCancel(r) ==
  /\ rthread[r] = "waiting"
  /\ rnc[r] = "listening"
  /\ ~cancelled[r]
  /\ cancelled' = [cancelled EXCEPT ![r] = TRUE]
  /\ UNCHANGED <<sthread, soutcome, snc, sfile, receiver_pin, ssent, sto,
                 selapsed, rthread, routcome, rnc, expected_pin, save_path,
                 relapsed, conn, files, port, stamp>>
  /\ UNCHANGED dvars

\* a TCP client other than send_thread connects to the listening nc (which
\* accepts whoever connects), announcing a PIN and a size of its own
PeerConnect ==
  /\ port # "free"
  /\ rnc[port] = "listening"
  /\ \A r \in Recvs : conn[r].src # "peer"
  /\ \E pin \in Pins, size \in 0..MaxLen :
       conn' = [conn EXCEPT ![port] =
                  [src |-> "peer", pin |-> pin, declared |-> size,
                   wire |-> <<>>, eof |-> FALSE, sentn |-> 0, got |-> 0]]
  /\ rnc' = [rnc EXCEPT ![port] = "connected"]
  /\ UNCHANGED <<sthread, soutcome, snc, sfile, receiver_pin, ssent, sto,
                 selapsed, rthread, routcome, expected_pin, save_path,
                 relapsed, cancelled, files, port, stamp>>
  /\ UNCHANGED dvars

\* that client sends a payload byte; it may send one more than it announced
PeerChunk(r) ==
  /\ conn[r].src = "peer"
  /\ ~conn[r].eof
  /\ rnc[r] = "connected"
  /\ conn[r].sentn <= conn[r].declared
  /\ conn' = [conn EXCEPT ![r].wire = Append(@, "a"), ![r].sentn = @ + 1]
  /\ UNCHANGED <<sthread, soutcome, snc, sfile, receiver_pin, ssent, sto,
                 selapsed, rthread, routcome, rnc, expected_pin, save_path,
                 relapsed, cancelled, files, port, stamp>>
  /\ UNCHANGED dvars

\* that client closes the connection
PeerClose(r) ==
  /\ conn[r].src = "peer"
  /\ ~conn[r].eof
  /\ conn' = [conn EXCEPT ![r].eof = TRUE]
  /\ UNCHANGED <<sthread, soutcome, snc, sfile, receiver_pin, ssent, sto,
                 selapsed, rthread, routcome, rnc, expected_pin, save_path,
                 relapsed, cancelled, files, port, stamp>>
  /\ UNCHANGED dvars

\* the wall clock moves on to the next second
SecondPasses ==
  /\ stamp < MaxStamp
  /\ stamp' = stamp + 1
  /\ UNCHANGED <<sthread, soutcome, snc, sfile, receiver_pin, ssent, sto,
                 selapsed, rthread, routcome, rnc, expected_pin, save_path,
                 relapsed, cancelled, conn, files, port>>
  /\ UNCHANGED dvars

\* a clock that runs for send_thread only: receive_thread never sees its
\* timeout elapse
TickSenderOnly ==
  /\ sthread = "waiting"
  /\ selapsed < Timeout
  /\ selapsed' = selapsed + 1
  /\ UNCHANGED <<sthread, soutcome, snc, sfile, receiver_pin, ssent, sto,
                 rthread, routcome, rnc, expected_pin, save_path, relapsed,
                 cancelled, conn, files, port, stamp>>
  /\ UNCHANGED dvars

\* a minute of wall-clock time passes for every thread inside subprocess.run
Tick ==
  /\ \/ sthread = "waiting" /\ selapsed < Timeout
     \/ \E r \in Recvs : rthread[r] = "waiting" /\ relapsed[r] < Timeout
  /\ selapsed' = IF sthread = "waiting" /\ selapsed < Timeout
                 THEN selapsed + 1 ELSE selapsed
  /\ relapsed' = [r \in Recvs |->
                    IF rthread[r] = "waiting" /\ relapsed[r] < Timeout
                    THEN relapsed[r] + 1 ELSE relapsed[r]]
  /\ UNCHANGED <<sthread, soutcome, snc, sfile, receiver_pin, ssent, sto,
                 rthread, routcome, rnc, expected_pin, save_path, cancelled,
                 conn, files, port, stamp>>
  /\ UNCHANGED dvars

\* the app after construction
Init == DInit /\ TInit

\* one send and one receive, and nothing else on the network
PairNext ==
  \/ SendFile
  \/ SendConnect
  \/ SendChunk
  \/ SendEOF
  \/ SendBroken
  \/ SendTimeout
  \/ Tick
  \/ StartReceiving("r1")
  \/ RecvSpawn("r1")
  \/ RecvChunk("r1")
  \/ RecvEOF("r1")
  \/ RecvTimeout("r1")

SpecPair == Init /\ [][PairNext]_vars

\* time passes and the two threads are scheduled; nothing is assumed of nc
\* or of the network
FairPair ==
  /\ SpecPair
  /\ WF_vars(Tick)
  /\ WF_vars(SendTimeout)
  /\ WF_vars(RecvSpawn("r1"))
  /\ WF_vars(RecvTimeout("r1"))

\* one receive, its caller, and a TCP client that is not send_thread
PeerNext ==
  \/ Tick
  \/ SecondPasses
  \/ RequestCancel("r1")
  \/ PeerConnect
  \/ PeerChunk("r1")
  \/ PeerClose("r1")
  \/ StartReceiving("r1")
  \/ RecvSpawn("r1")
  \/ RecvChunk("r1")
  \/ RecvEOF("r1")
  \/ RecvTimeout("r1")

SpecPeer == Init /\ [][PeerNext]_vars

\* two presses of "Start Listening", one after the other or while the first
\* receive is still running, and a TCP client
TwoNext ==
  \/ Tick
  \/ SecondPasses
  \/ PeerConnect
  \/ \E r \in Recvs :
       \/ StartReceiving(r)
       \/ RecvSpawn(r)
       \/ RecvChunk(r)
       \/ RecvEOF(r)
       \/ RecvTimeout(r)
       \/ PeerChunk(r)
       \/ PeerClose(r)

SpecTwo == Init /\ [][TwoNext]_vars

\* the app on its own: the listen loop, which hears the host's own broadcasts,
\* and the buttons "Refresh", "Broadcast", "Send File" and "Start Listening"
AppNext ==
  \/ RefreshPin
  \/ BroadcastDiscovery
  \/ ListenerBind
  \/ ListenerCheck
  \/ ListenerRecv
  \/ SendFile
  \/ StartReceiving("r1")
  \/ RecvSpawn("r1")

SpecApp == Init /\ [][AppNext]_vars

SpecDiscovery == Init /\ [][DNext]_vars

\* the listener thread is scheduled; nobody is obliged to send datagrams
FairDiscovery ==
  /\ SpecDiscovery
  /\ WF_vars(ListenerBind)
  /\ WF_vars(ListenerCheck)
  /\ WF_vars(ListenerRecv)


\* ------------------------------------------------- properties: discovery
\* the addresses that datagrams of this model announce
KnownIps == {local_ip, remote_ip}

\* the text DISCOVERY:<ip>:<pin>
MsgOf(ip, pin) == <<"DISCOVERY", ":">> \o ip \o <<":">> \o pin

WellFormed(data) == \E ip \in KnownIps, pin \in Pins : data = MsgOf(ip, pin)

\* positions of `processed` that hold a well-formed datagram for ip
IndicesFor(ip) ==
  {i \in 1..Len(processed) : \E pin \in Pins : processed[i] = MsgOf(ip, pin)}

Last(S) == CHOOSE i \in S : \A j \in S : j <= i

\* the step is a call of broadcast_discovery: it logs one of its two lines
BroadcastCall ==
  /\ Len(log') = Len(log) + 1
  /\ log'[Len(log')] \in {"broadcast_sent", "broadcast_failed"}

\* C5 (state part): the peer mapping holds exactly the ips that a processed
\* well-formed datagram announced, each with the PIN of the latest of them
LastWriteWins ==
  /\ DOMAIN discovered_peers = {ip \in KnownIps : IndicesFor(ip) # {}}
  /\ \A ip \in DOMAIN discovered_peers :
       processed[Last(IndicesFor(ip))] = MsgOf(ip, discovered_peers[ip])

\* C5: after any sequence of processed well-formed datagrams the peer mapping
\* holds, for every ip that appeared, the PIN of the most recently processed
\* datagram for that ip, and every call of broadcast_discovery puts exactly
\* one datagram on the network, carrying the PIN current at the call
C5_LastWriteWins ==
  /\ []LastWriteWins
  /\ [][BroadcastCall =>
          /\ Len(sent') = Len(sent) + 1
          /\ SubSeq(sent', 1, Len(sent)) = sent
          /\ sent'[Len(sent')].data = MsgOf(local_ip, pin_code)]_vars

\* C5 witness: the host broadcast, changed its PIN and broadcast again, the
\* listener processed both datagrams and holds the second PIN
C5_Witness ==
  /\ refreshes = 1
  /\ Len(sent) >= 2
  /\ sent[1].src = "self"
  /\ sent[2].src = "self"
  /\ sent[1].data # sent[2].data
  /\ Len(processed) >= 2
  /\ processed[1] = sent[1].data
  /\ processed[2] = sent[2].data
  /\ IndicesFor(local_ip) = {1, 2}
  /\ discovered_peers[local_ip] = pin_code

\* C6: a datagram that is not a well-formed discovery message is dropped
\* silently: handling it changes neither the peer mapping nor the log
C6_SilentDrop ==
  [][(Len(processed') = Len(processed) + 1
        /\ ~WellFormed(processed'[Len(processed')]))
       => (discovered_peers' = discovered_peers /\ log' = log)]_vars

\* the address the claim names: the host part of the /24 zeroed
HostPartZeroed == [local_ip EXCEPT ![Len(local_ip)] = "0"]

\* the address with the last octet set to 255
HostPartOnes == [local_ip EXCEPT ![Len(local_ip)] = "255"]

\* a call of broadcast_discovery that sends exactly one datagram, with the
\* current PIN, to port 12346 of dst, and reports no error
BroadcastsOnceTo(dst) ==
  /\ sent' = Append(sent, [src |-> "self", dst |-> dst, port |-> 12346,
                           data |-> MsgOf(local_ip, pin_code)])
  /\ log' = Append(log, "broadcast_sent")

\* C7 as stated: each broadcast sends exactly one datagram
\* DISCOVERY:<localIp>:<pin> to the discovery port at the address obtained by
\* zeroing the host part of localIp's /24, and reports no error
C7_ZeroedHost == [][BroadcastCall => BroadcastsOnceTo(HostPartZeroed)]_vars

\* C7 as amended: ... at the address obtained by replacing the last octet of
\* localIp by 255
C7_Broadcast == [][BroadcastCall => BroadcastsOnceTo(HostPartOnes)]_vars

\* C7 witness: a broadcast was sent while no listener was bound; the log
\* holds the success line only
C7_Witness ==
  /\ lpc = "bind"
  /\ Len(sent) = 1
  /\ sent[1].src = "self"
  /\ sockq = <<>>
  /\ log = <<"broadcast_sent">>

\* C9: once the running flag is cleared the listen loop eventually exits,
\* whether or not another datagram arrives
C9_StopUnblocks == (~discovery_running) ~> (lpc = "exited")


\* -------------------------------------------------- properties: transfer
\* the destination file of receive r, once receive_thread has named it
Dest(r) == files[save_path[r]]

Named(r) == save_path[r] \in Stamps

Ended(r) == rthread[r] = "done"

\* C1: a receive whose incoming connection carries a PIN other than the
\* expected one ends with AuthError, and its destination file is never created
C1_AuthError ==
  \A r \in Recvs :
    (conn[r].src # "none" /\ conn[r].pin # expected_pin[r]) =>
      /\ Named(r) => ~Dest(r).exists
      /\ Ended(r) => routcome[r] = "auth_error"

\* the send reached the receive: nc connected while the receive was listening
Paired == conn["r1"].src = "app"

BothEnded == Ended("r1") /\ sthread = "done"

Reproduced ==
  /\ routcome["r1"] = "success"
  /\ Named("r1")
  /\ Dest("r1").exists
  /\ Dest("r1").data = sfile

\* C2 as stated: a send running together with a listening receive ends with
\* the receiver reporting success and the saved file equal to the sent bytes
C2_AlwaysReproduced == (Paired /\ BothEnded) => Reproduced

\* C2 as amended: ... unless the send or the receive ran into its timeout
C2_RoundTrip ==
  (Paired /\ BothEnded /\ soutcome # "timeout" /\ routcome["r1"] # "timeout")
    => Reproduced

\* C2 witness: a two-byte file with two different bytes arrived whole
C2_Witness ==
  /\ Paired
  /\ BothEnded
  /\ soutcome = "success"
  /\ Len(sfile) = 2
  /\ sfile[1] # sfile[2]
  /\ Reproduced

\* C3: the bytes a receive accepts never exceed the declared size, and a
\* connection closed before the declared size has arrived never ends in success
C3_Incomplete ==
  \A r \in Recvs :
    conn[r].src # "none" =>
      /\ conn[r].got <= conn[r].declared
      /\ (Ended(r) /\ conn[r].eof /\ conn[r].sentn < conn[r].declared)
           => routcome[r] # "success"

\* C4: when more bytes arrive than the declared size the receive does not end
\* in success and the saved file is not longer than declared
C4_Excess ==
  \A r \in Recvs :
    (conn[r].src # "none" /\ Ended(r) /\ conn[r].got > conn[r].declared) =>
      /\ routcome[r] # "success"
      /\ Len(Dest(r).data) <= conn[r].declared

\* C8: a receive cancelled while no connection had come in ends with the
\* Cancelled outcome and no longer holds the port
C8_Cancelled ==
  \A r \in Recvs :
    (cancelled[r] /\ conn[r].src = "none" /\ Ended(r)) =>
      (routcome[r] = "cancelled" /\ port # r)

Outcomes == {"success", "error", "timeout"}

\* C10 (state part): an ended operation has exactly one outcome, and a receive
\* that nobody connected to ended by its timeout, after the full duration
EndedWithOutcome ==
  /\ sthread = "done" <=> soutcome \in Outcomes
  /\ soutcome \in Outcomes \cup {"pending"}
  /\ \A r \in Recvs :
       /\ Ended(r) <=> routcome[r] \in Outcomes
       /\ routcome[r] \in Outcomes \cup {"pending"}
       /\ (Ended(r) /\ conn[r].src = "none")
            => (routcome[r] = "timeout" /\ relapsed[r] = Timeout)

\* C10: every started send or receive eventually ends, with one outcome that
\* never changes afterwards; one whose peer never connects or never finishes
\* ends by timeout
C10_Terminates ==
  /\ []EndedWithOutcome
  /\ (sthread = "waiting") ~> (sthread = "done")
  /\ (rthread["r1"] \in {"started", "waiting"}) ~> Ended("r1")
  /\ [][/\ soutcome # "pending" => soutcome' = soutcome
        /\ routcome["r1"] # "pending" => routcome'["r1"] = routcome["r1"]]_vars

\* C10 witness: a receive nobody connected to has ended by timeout
C10_Witness ==
  /\ Ended("r1")
  /\ conn["r1"].src = "none"
  /\ routcome["r1"] = "timeout"
  /\ relapsed["r1"] = Timeout
  /\ sthread = "idle"

\* the sender's nc is still running: it holds its socket and the open file
SenderHolds == snc \in {"connecting", "sending"}

\* the nc of receive r is still running: it holds the listening or connected
\* socket, port 12345 and the open destination file
ReceiverHolds(r) == rnc[r] \in {"listening", "connected"} \/ port = r

\* C11: once a send or a receive has ended, by success, error or timeout,
\* everything it opened is released: no ended operation still holds a socket,
\* the transfer port or the destination file
C11_Released ==
  /\ sthread = "done" => ~SenderHolds
  /\ \A r \in Recvs : Ended(r) => ~ReceiverHolds(r)

\* no two receives have named the same destination
OwnPath ==
  \A r, q \in Recvs :
    (r # q /\ Named(r) /\ Named(q)) => save_path[r] # save_path[q]

\* a receive that names its destination names a file that did not exist
NewlyCreated ==
  \A r \in Recvs :
    save_path'[r] # save_path[r] => ~files[save_path'[r]].exists

\* the file a receive has saved is not changed afterwards
SavedKept ==
  \A r \in Recvs :
    (Ended(r) /\ routcome[r] = "success")
      => files'[save_path[r]] = files[save_path[r]]

\* C12: any two receives, run one after the other or overlapping, each write
\* to their own newly created destination file: no two receives share a save
\* path and no receive overwrites a file another receive saved
C12_OwnFile == []OwnPath /\ [][NewlyCreated /\ SavedKept]_vars

\* the sender's nc has written more to the connection than bytes of the file:
\* something went out ahead of the payload
HeaderWritten == sto \in Recvs /\ conn[sto].sentn > ssent

\* the receiver's nc has taken more off the connection than it has put into
\* the destination file: something was read ahead of the payload
HeaderRead(r) == conn[r].sentn - Len(conn[r].wire) > conn[r].got

\* C13: within one transfer the header is written by the sender before its
\* first payload byte is sent, and read by the receiver before its first
\* payload byte is accepted into the destination file
C13_HeaderFirst ==
  /\ ssent >= 1 => HeaderWritten
  /\ \A r \in Recvs : conn[r].got >= 1 => HeaderRead(r)

\* the step is the listen loop handling the datagram recvfrom returned
HandlesDatagram ==
  /\ lpc = "recv"
  /\ lpc' = "loop"
  /\ sockq # <<>>
  /\ processed' = Append(processed, Head(sockq))

\* the step belongs to broadcast_discovery, refresh_pin, send_file or
\* start_receiving (the threads they start included)
OtherOperation ==
  \/ BroadcastCall
  \/ refreshes' # refreshes
  \/ pin_code' # pin_code
  \/ sthread' # sthread
  \/ snc' # snc
  \/ rthread' # rthread
  \/ files' # files

\* C14: the peer mapping has a single writer: it changes only when the listen
\* loop handles a received datagram, and broadcast, refresh_pin, send_file and
\* start_receiving, however interleaved with the loop, leave it unchanged
C14_SingleWriter ==
  [][/\ discovered_peers' # discovered_peers => HandlesDatagram
     /\ OtherOperation => discovered_peers' = discovered_peers]_vars

\* C14 witness: the loop recorded the host under its first PIN; the PIN was
\* refreshed and broadcast again, a send is under way and a receive is
\* listening, with the mapping as the loop left it
C14_Witness ==
  /\ local_ip \in DOMAIN discovered_peers
  /\ refreshes = 1
  /\ discovered_peers[local_ip] # pin_code
  /\ Len(processed) = 1
  /\ Len(sent) = 2
  /\ sent[2].data = MsgOf(local_ip, pin_code)
  /\ sthread = "waiting"
  /\ rnc["r1"] = "listening"

\* the listen loop has ended only if it was told to stop
LoopAlive == lpc = "exited" => ~discovery_running

\* a well-formed datagram the loop handles is recorded in the peer mapping,
\* whatever was handled before it
RecordsWellFormed ==
  HandlesDatagram =>
    \A ip \in KnownIps, pin \in Pins :
      Head(sockq) = MsgOf(ip, pin) =>
        /\ ip \in DOMAIN discovered_peers'
        /\ discovered_peers'[ip] = pin

\* C15: while the listener has not been told to stop, no received datagram
\* ends the listen loop: after any sequence of malformed or undecodable
\* datagrams the loop is still running, it empties its socket's buffer again
\* and again, and a well-formed datagram it handles is recorded
C15_LoopSurvives ==
  /\ []LoopAlive
  /\ [][RecordsWellFormed]_vars
  /\ []<>(sockq = <<>> \/ ~discovery_running)

\* C15 witness: an undecodable datagram was handled and logged as an error,
\* and the well-formed datagram that came after it is in the peer mapping,
\* the listener not having been told to stop
C15_Witness ==
  /\ discovery_running
  /\ Len(processed) = 2
  /\ processed[1] = <<"xFF">>
  /\ \E pin \in Pins :
       /\ processed[2] = MsgOf(remote_ip, pin)
       /\ remote_ip \in DOMAIN discovered_peers
       /\ discovered_peers[remote_ip] = pin
  /\ log = <<"discovery_error", "discovered_peer">>
  /\ lpc = "loop"

====
